---- MODULE Spec2Model ----
(***************************************************************************)
(* Model of the Arduino LED controller (arduino_led_control/led_control.ino *)
(* and its 1000 ms variant) together with the host-side ArduinoController  *)
(* of README_ARDUINO.md.                                                   *)
(*                                                                         *)
(* Time.  The sketch reads millis() only to form the differences           *)
(* millis() - lastCommandTime and millis() - lastBlinkTime and to compare  *)
(* them with serialTimeout and 500.  The model keeps these differences     *)
(* (cmdAge, blinkAge) in milliseconds; "lastX = millis()" is "age = 0",    *)
(* a delay(n) adds n to both, and an age that has passed its threshold is  *)
(* kept at threshold + 1.  Code other than delay() takes no time.          *)
(***************************************************************************)
EXTENDS Integers, Sequences, FiniteSets, TLC

(* ------------------------------ bounds -------------------------------- *)
MaxRx == 2          \* bytes that can wait in the serial receive queue
MaxPings == 1       \* heartbeat periods that elapse in one behaviour
MaxBytes == 2       \* bytes the senders write in one behaviour

(* ------------------------- program constants -------------------------- *)
LED_COUNT == 64
TRANSITION_DURATION == 300
USE_SMOOTH_TRANSITION == TRUE
CIRCLE_RADIUS == 4
BRIGHTNESS == 50
BLINK_INTERVAL == 500
LOOP_DELAY == 10
PING_DELAY == 20
FADE_STEPS == 20
CENTER_PIXEL == 27
SETUP_BLINKS == 3
SETUP_HALF_PERIOD == 200

Sketches == {"led_control", "part_001"}

serialTimeout(sketch) == IF sketch = "led_control" THEN 5000 ELSE 1000

\* millis() at the end of setup(): led_control blinks the builtin LED,
\* the variant does not wait.
SetupMillis(sketch) ==
    IF sketch = "led_control" THEN SETUP_BLINKS * (SETUP_HALF_PERIOD + SETUP_HALF_PERIOD)
    ELSE 0

(* ------------------------------ integers ------------------------------ *)
\* C division truncates toward zero
TruncDiv(a, b) == IF a >= 0 THEN a \div b ELSE -((-a) \div b)

\* 16-bit int of the AVR, 8-bit uint8_t
I16(x) == ((x + 32768) % 65536) - 32768
U8(x) == x % 256

Digit == <<"0", "1", "2", "3", "4", "5", "6", "7", "8", "9",
           "A", "B", "C", "D", "E", "F">>

RECURSIVE DecStr(_)
\* Serial.print(int): decimal digits
DecStr(n) == IF n < 10 THEN Digit[n + 1] ELSE DecStr(n \div 10) \o Digit[(n % 10) + 1]

RECURSIVE HexStr(_)
\* Serial.print(uint32_t, HEX): upper-case hex digits, no leading zeros
HexStr(n) == IF n < 16 THEN Digit[n + 1] ELSE HexStr(n \div 16) \o Digit[(n % 16) + 1]

RECURSIVE StringOf(_)
\* the characters of an Arduino String as one printed text
StringOf(cs) == IF cs = <<>> THEN "" ELSE Head(cs) \o StringOf(Tail(cs))

(* ------------------------------- colours ------------------------------ *)
\* Adafruit_NeoPixel::Color packs r, g, b into 0xRRGGBB
Color(r, g, b) == r * 65536 + g * 256 + b
RedOf(c) == (c \div 65536) % 256
GreenOf(c) == (c \div 256) % 256
BlueOf(c) == c % 256

GREEN_COLOR == Color(0, 255, 0)
RED_COLOR == Color(255, 0, 0)
BLACK_COLOR == Color(0, 0, 0)

\* strip.setBrightness(50) stores brightness + 1; setPixelColor then keeps
\* (channel * brightness) >> 8 in the pixel buffer ...
ScaleChannel(v) == (v * (BRIGHTNESS + 1)) \div 256
StoredColor(c) == Color(ScaleChannel(RedOf(c)), ScaleChannel(GreenOf(c)), ScaleChannel(BlueOf(c)))

\* ... and getPixelColor returns (stored << 8) / brightness per channel
UnscaleChannel(v) == (v * 256) \div (BRIGHTNESS + 1)
getPixelColor(pixels, n) ==
    Color(UnscaleChannel(RedOf(pixels[n])), UnscaleChannel(GreenOf(pixels[n])),
          UnscaleChannel(BlueOf(pixels[n])))

\* the value of a one-element set: in Only({f(v) : v \in {e}}) the argument e
\* is computed once, as a call by value does, and f uses it under the name v
Only(S) == CHOOSE r \in S : TRUE

Pixels == 0 .. (LED_COUNT - 1)

\* distance <= CIRCLE_RADIUS with distance = sqrt((x-3)^2 + (y-3)^2)
InCircle(x, y) == (x - 3) * (x - 3) + (y - 3) * (y - 3) <= CIRCLE_RADIUS * CIRCLE_RADIUS

\* the pixels setCirclePattern lights, row by row (pixelIndex = y * 8 + x)
CircleMask == [i \in Pixels |-> InCircle(i % 8, i \div 8)]

\* every pixel set to BLACK_COLOR
AllOff == [i \in Pixels |-> StoredColor(BLACK_COLOR)]
\* variant: the buffer is not cleared before the circle is drawn
clearAllLEDs_Keeps(pixels) == pixels
clearAllLEDs(pixels) == AllOff

\* the loop over y and x of setCirclePattern, on the cleared buffer
FillCircle(cleared, stored) ==
    Only({ [i \in Pixels |-> IF CircleMask[i] THEN c ELSE cleared[i]] : c \in {stored}})
CirclePixels(pixels, color) == FillCircle(clearAllLEDs(pixels), StoredColor(color))

\* the three frames the sketch settles on
GreenFrame == CirclePixels(AllOff, GREEN_COLOR)
RedFrame == CirclePixels(AllOff, RED_COLOR)
OffFrame == CirclePixels(AllOff, BLACK_COLOR)

(* --------------------------- time and logging ------------------------- *)
Sat(age, limit) == IF age > limit THEN limit + 1 ELSE age

\* variant: a delay that services the blink while it waits
delay_RunsBlink(st, ms) ==
    Only({
        IF s.detectionLevel = 1 /\ s.isBlinking /\ s.blinkAge + ms > BLINK_INTERVAL
        THEN [s EXCEPT !.cmdAge = Sat(@ + ms, serialTimeout(s.sketch)),
                       !.blinkAge = 0,
                       !.blinkState = ~@,
                       !.events = Append(@, "toggle"),
                       !.dt = @ + ms]
        ELSE [s EXCEPT !.cmdAge = Sat(@ + ms, serialTimeout(s.sketch)),
                       !.blinkAge = Sat(@ + ms, BLINK_INTERVAL),
                       !.dt = @ + ms] : s \in {st}})

\* delay(ms): both ages grow by ms
delay(st, ms) ==
    Only({
        [s EXCEPT !.cmdAge = Sat(@ + ms, serialTimeout(s.sketch)),
                  !.blinkAge = Sat(@ + ms, BLINK_INTERVAL),
                  !.dt = @ + ms] : s \in {st}})

\* Serial.println of one whole line
println(s, line) == [s EXCEPT !.out = Append(@, line)]

\* led_control prints its narration only in verbose mode, the variant always
Verbose(s) == s.sketch = "led_control" /\ s.verboseLogging
Narrates(s) == s.sketch = "part_001" \/ s.verboseLogging

\* if (verboseLogging) Serial.println(line);
verbosePrintln(st, line) ==
    Only({IF Verbose(s) THEN println(s, line) ELSE s : s \in {st}})
narratePrintln(st, line) ==
    Only({IF Narrates(s) THEN println(s, line) ELSE s : s \in {st}})

(* ------------------------------ rendering ----------------------------- *)
PatternLine(color) ==
    IF color = GREEN_COLOR THEN "LED pattern: green circle"
    ELSE IF color = RED_COLOR THEN "LED pattern: red circle"
    ELSE IF color = BLACK_COLOR THEN "LED pattern: off"
    ELSE "LED pattern: custom colour(0x" \o HexStr(color) \o ")"

setCirclePattern(st, color) ==
    Only({
        verbosePrintln([s EXCEPT !.pixels = CirclePixels(s.pixels, color),
                                 !.shown = Append(@, color)],
                       PatternLine(color)) : s \in {st}})

\* variant: the difference newR - oldR is taken in uint8_t
FadeChannel_ByteDifference(old, new, step) ==
    U8(I16(old + TruncDiv(I16(U8(new - old) * step), FADE_STEPS)))

\* uint8_t r = oldR + (newR - oldR) * step / 20, in 16-bit int arithmetic
FadeChannel(old, new, step) ==
    U8(I16(old + TruncDiv(I16(I16(new - old) * step), FADE_STEPS)))

FadeColor(oldColor, color, step) ==
    Color(FadeChannel(RedOf(oldColor), RedOf(color), step),
          FadeChannel(GreenOf(oldColor), GreenOf(color), step),
          FadeChannel(BlueOf(oldColor), BlueOf(color), step))

RECURSIVE FadeLoop(_, _, _, _, _)
\* for (step = 0; step <= 20; step++) { setCirclePattern(...); delay(duration / 20); }
FadeLoop(st, oldColor, color, duration, step) ==
    Only({
        IF step <= FADE_STEPS
        THEN FadeLoop(delay(setCirclePattern(s, FadeColor(oldColor, color, step)),
                            TruncDiv(duration, FADE_STEPS)),
                      oldColor, color, duration, step + 1)
        ELSE s : s \in {st}})

\* variant: with nothing displayed there is nothing to fade, and it returns
fadeToCirclePattern_SkipsWhenDark(st, color, duration) ==
    Only({
        IF getPixelColor(s.pixels, CENTER_PIXEL) = 0
        THEN s
        ELSE verbosePrintln(
                 setCirclePattern(
                     FadeLoop(verbosePrintln(s, "fade start"),
                              getPixelColor(s.pixels, CENTER_PIXEL), color, duration, 0),
                     color),
                 "fade done") : s \in {st}})

fadeToCirclePattern(st, color, duration) ==
    Only({
        IF getPixelColor(s.pixels, CENTER_PIXEL) = 0
        THEN setCirclePattern(s, color)
        ELSE verbosePrintln(
                 setCirclePattern(
                     FadeLoop(verbosePrintln(s, "fade start"),
                              getPixelColor(s.pixels, CENTER_PIXEL), color, duration, 0),
                     color),
                 "fade done") : s \in {st}})

ShowColor(s, color) ==
    IF USE_SMOOTH_TRANSITION THEN fadeToCirclePattern(s, color, TRANSITION_DURATION)
    ELSE setCirclePattern(s, color)

(* --------------------------- command dispatch ------------------------- *)
\* variant: the acknowledgment echoes the command character
AckLine_EchoesCommand(s) == "S:" \o s.command

AckLine(s) ==
    IF s.sketch = "led_control" THEN "S:" \o DecStr(s.detectionLevel)
    ELSE "current state: " \o DecStr(s.detectionLevel)

\* variant: only the level commands are acknowledged
Acknowledge_LevelCommandsOnly(st) ==
    Only({
        IF s.command \in {"0", "1", "2"} THEN println(s, AckLine(s)) ELSE s : s \in {st}})

\* Serial.print("S:"); Serial.println(detectionLevel);
Acknowledge(st) == Only({ println(s, AckLine(s)) : s \in {st}})

VerboseToggleLine(s) == "verbose log: " \o (IF s.verboseLogging THEN "on" ELSE "off")

\* variant: '2' is a level of its own, as in the three-level sketches
SetLevel_ThreeLevels(st, cmd) ==
    Only({
        IF cmd = "0"
        THEN narratePrintln(ShowColor([s EXCEPT !.detectionLevel = 0, !.isBlinking = FALSE],
                                      GREEN_COLOR),
                            "state: no detection (green)")
        ELSE IF cmd = "1" \/ cmd = "2"
        THEN narratePrintln(ShowColor([s EXCEPT !.detectionLevel = IF cmd = "1" THEN 1 ELSE 2,
                                                !.isBlinking = (s.sketch = "led_control")],
                                      RED_COLOR),
                            "state: detected (red)")
        ELSE s : s \in {st}})

\* variant: the chain ends in an else that falls back to green
SetLevel_ElseGreen(st, cmd) ==
    Only({
        IF cmd = "1" \/ cmd = "2"
        THEN narratePrintln(ShowColor([s EXCEPT !.detectionLevel = 1,
                                                !.isBlinking = (s.sketch = "led_control")],
                                      RED_COLOR),
                            "state: detected (red)")
        ELSE narratePrintln(ShowColor([s EXCEPT !.detectionLevel = 0, !.isBlinking = FALSE],
                                      GREEN_COLOR),
                            "state: no detection (green)") : s \in {st}})

\* variant: a detection command restarts the blink timer
SetLevel_RestartsBlink(st, cmd) ==
    Only({
        IF cmd = "0"
        THEN narratePrintln(ShowColor([s EXCEPT !.detectionLevel = 0, !.isBlinking = FALSE],
                                      GREEN_COLOR),
                            "state: no detection (green)")
        ELSE IF cmd = "1" \/ cmd = "2"
        THEN narratePrintln(ShowColor([s EXCEPT !.detectionLevel = 1,
                                                !.isBlinking = (s.sketch = "led_control"),
                                                !.blinkAge = 0],
                                      RED_COLOR),
                            "state: detected (red)")
        ELSE s : s \in {st}})

\* the if / else-if chain of processCommand on the command character
SetLevel(st, cmd) ==
    Only({
        IF cmd = "0"
        THEN narratePrintln(ShowColor([s EXCEPT !.detectionLevel = 0, !.isBlinking = FALSE],
                                      GREEN_COLOR),
                            "state: no detection (green)")
        ELSE IF cmd = "1" \/ cmd = "2"
        THEN narratePrintln(ShowColor([s EXCEPT !.detectionLevel = 1,
                                                !.isBlinking = (s.sketch = "led_control")],
                                      RED_COLOR),
                            "state: detected (red)")
        ELSE s : s \in {st}})

\* variant: 'v' switches verbose logging on
ToggleVerbose_SwitchesOn(s) == [s EXCEPT !.verboseLogging = TRUE]

\* verboseLogging = !verboseLogging;
ToggleVerbose(s) == [s EXCEPT !.verboseLogging = ~@]

\* Serial.print(...); Serial.println(verboseLogging ? ... : ...);
ReportVerbose(st) == Only({ println(s, VerboseToggleLine(s)) : s \in {st}})

processCommand(st, cmd) ==
    Only({
        IF s.sketch = "led_control" /\ cmd = "v"
        THEN ReportVerbose(ToggleVerbose([s EXCEPT !.command = cmd]))
        ELSE Acknowledge(SetLevel(verbosePrintln([s EXCEPT !.command = cmd],
                                                 "processing command: " \o cmd),
                                  cmd)) : s \in {st}})

(* ------------------------------ receiving ----------------------------- *)
LevelCommands == {"0", "1", "2"}
Terminators == {"\n", "\r"}
Bytes == LevelCommands \cup Terminators \cup {"v", "p", "x"}

\* variant: the last buffered character is the command
Dispatch_LastChar(st, label) ==
    Only({
        [processCommand(verbosePrintln(s, label \o StringOf(s.inputString)),
                        s.inputString[Len(s.inputString)])
             EXCEPT !.inputString = <<>>,
                    !.disp = Append(@, s.inputString[Len(s.inputString)]),
                    !.group = s.inputString] : s \in {st}})

\* variant: the buffer is not cleared after processCommand
Dispatch_KeepsBuffer(st, label) ==
    Only({
        [processCommand(verbosePrintln(s, label \o StringOf(s.inputString)),
                        s.inputString[1])
             EXCEPT !.disp = Append(@, s.inputString[1]),
                    !.group = s.inputString] : s \in {st}})

\* processCommand(inputString.charAt(0)); inputString = "";
Dispatch(st, label) ==
    Only({
        [processCommand(verbosePrintln(s, label \o StringOf(s.inputString)),
                        s.inputString[1])
             EXCEPT !.inputString = <<>>, !.disp = Append(@, s.inputString[1]),
                    !.group = s.inputString] : s \in {st}})

\* if (inChar == '\n' || inChar == '\r') { ... } else { inputString += inChar; }
TakeChar(st, inChar) ==
    Only({
        IF inChar \in Terminators
        THEN IF Len(s.inputString) > 0 THEN Dispatch(s, "command received: ") ELSE s
        ELSE [s EXCEPT !.inputString = Append(@, inChar)] : s \in {st}})

\* variant: a command is dispatched by a line terminator only
FlushIfDrained_Never(st, available) == st

\* if (Serial.available() == 0 && inputString.length() > 0) { ... }
FlushIfDrained(st, available) ==
    Only({
        IF available = 0 /\ Len(s.inputString) > 0
        THEN Dispatch(s, "command handled at once: ")
        ELSE s : s \in {st}})

\* variant: a terminator does not refresh lastCommandTime
receiveByte_TerminatorKeepsTime(st, q) ==
    Only({
        [FlushIfDrained(TakeChar([s EXCEPT !.cmdAge = IF Head(q) \in Terminators THEN @ ELSE 0,
                                           !.builtinLed = (s.sketch = "led_control")],
                                 Head(q)),
                        Len(Tail(q)))
             EXCEPT !.builtinLed = FALSE] : s \in {st}})

\* one iteration of the while loop of receiveSerialCommand; q is the
\* receive queue, not empty
receiveByte(st, q) ==
    Only({
        [FlushIfDrained(TakeChar([s EXCEPT !.cmdAge = 0,
                                           !.builtinLed = (s.sketch = "led_control")],
                                 Head(q)),
                        Len(Tail(q)))
             EXCEPT !.builtinLed = FALSE] : s \in {st}})

(* ------------------------------ loop body ----------------------------- *)
BlinkEnabled(s) ==
    IF s.sketch = "led_control" THEN s.detectionLevel = 1 /\ s.isBlinking
    ELSE s.detectionLevel = 1

BlinkDue(s) == BlinkEnabled(s) /\ s.blinkAge > BLINK_INTERVAL
\* variant: the timeout comparison without the test of the level
TimeoutDue_AnyLevel(s) == s.cmdAge > serialTimeout(s.sketch)
TimeoutDue(s) == s.cmdAge > serialTimeout(s.sketch) /\ s.detectionLevel # 0
Due(s) == BlinkDue(s) \/ TimeoutDue(s)

\* if (blinkState) { red, builtin LED on } else { off, builtin LED off }
ShowBlink(st) ==
    Only({
        [setCirclePattern(s, IF s.blinkState THEN RED_COLOR ELSE BLACK_COLOR)
             EXCEPT !.builtinLed = (s.sketch = "led_control" /\ s.blinkState)] : s \in {st}})

\* variant: the toggle re-renders without flipping blinkState
blinkBlock_NoToggle(st) ==
    Only({
        IF BlinkDue(s)
        THEN ShowBlink([s EXCEPT !.blinkAge = 0, !.events = Append(@, "toggle")])
        ELSE s : s \in {st}})

blinkBlock(st) ==
    Only({
        IF BlinkDue(s)
        THEN ShowBlink([s EXCEPT !.blinkAge = 0, !.blinkState = ~@,
                                 !.events = Append(@, "toggle")])
        ELSE s : s \in {st}})

\* pingDue stands for millis() - lastPingTime > 30000 (5000 in the variant)
pingBlock(st, pingDue) ==
    Only({
        IF pingDue
        THEN narratePrintln(
                 IF s.sketch = "led_control"
                 THEN [delay(s, PING_DELAY) EXCEPT !.builtinLed = FALSE,
                                                   !.events = Append(@, "ping")]
                 ELSE [s EXCEPT !.events = Append(@, "ping")],
                 "PING")
        ELSE s : s \in {st}})

\* variant: the timeout resets the level and leaves the blink flag set
timeoutBlock_KeepsBlinking(st) ==
    Only({
        IF TimeoutDue(s)
        THEN narratePrintln(
                 setCirclePattern([s EXCEPT !.detectionLevel = 0,
                                            !.events = Append(@, "timeout")],
                                  GREEN_COLOR),
                 "serial timeout: back to green")
        ELSE s : s \in {st}})

\* variant: the timeout resets the level and leaves the frame as it is
timeoutBlock_NoRepaint(st) ==
    Only({
        IF TimeoutDue(s)
        THEN narratePrintln([s EXCEPT !.detectionLevel = 0, !.isBlinking = FALSE,
                                      !.events = Append(@, "timeout")],
                            "serial timeout: back to green")
        ELSE s : s \in {st}})

timeoutBlock(st) ==
    Only({
        IF TimeoutDue(s)
        THEN narratePrintln(
                 setCirclePattern([s EXCEPT !.detectionLevel = 0, !.isBlinking = FALSE,
                                            !.events = Append(@, "timeout")],
                                  GREEN_COLOR),
                 "serial timeout: back to green")
        ELSE s : s \in {st}})

\* what loop() does after receiveSerialCommand() has returned
loopTail(s, pingDue) == delay(timeoutBlock(pingBlock(blinkBlock(s), pingDue)), LOOP_DELAY)

\* loop() executions in a row, from a state where nothing is due, until the
\* blink or the timeout comparison first succeeds (every one of them only
\* runs delay(10)); when neither can succeed, until both ages are saturated
StepsPast(age, limit) == IF age > limit THEN 1 ELSE ((limit - age) \div LOOP_DELAY) + 1
Min(a, b) == IF a <= b THEN a ELSE b
Max(a, b) == IF a >= b THEN a ELSE b
IdleIterations(s) ==
    LET kb == StepsPast(s.blinkAge, BLINK_INTERVAL)
        kt == StepsPast(s.cmdAge, serialTimeout(s.sketch))
    IN  IF BlinkEnabled(s) /\ s.detectionLevel # 0 THEN Min(kb, kt)
        ELSE IF BlinkEnabled(s) THEN kb
        ELSE IF s.detectionLevel # 0 THEN kt
        ELSE Max(kb, kt)

\* the per-step observations start empty in every step
Fresh(s) ==
    [s EXCEPT !.out = <<>>, !.shown = <<>>, !.dt = 0, !.disp = <<>>, !.events = <<>>,
              !.group = <<>>, !.prevDisp = s.disp]

\* the step that produced the observations
Did(s, name) == [s EXCEPT !.act = name]

(* -------------------------------- state ------------------------------- *)
VARIABLES
    ino,            \* the sketch: its globals, statics, pixel buffer, and what the last step printed and rendered
    rx,             \* serial receive queue of the board
    inLoop,         \* receiveSerialCommand has read bytes in the current loop() execution
    host,           \* ArduinoController: last_command, connected, result of the last send_command
    lastLevelCmd,   \* history: the last level command dispatched
    expired,        \* history: the idle timeout has fired since that command
    pings,          \* heartbeat periods elapsed so far
    sent            \* bytes written to the port so far

vars == <<ino, rx, inLoop, host, lastLevelCmd, expired, pings, sent>>

InitSketch(sketch) ==
    [sketch |-> sketch,
     command |-> "0",
     detectionLevel |-> 0,
     isBlinking |-> FALSE,
     verboseLogging |-> FALSE,
     cmdAge |-> Sat(SetupMillis(sketch), serialTimeout(sketch)),
     blinkAge |-> Sat(SetupMillis(sketch), BLINK_INTERVAL),
     blinkState |-> TRUE,
     inputString |-> <<>>,
     pixels |-> GreenFrame,
     builtinLed |-> FALSE,
     out |-> IF sketch = "led_control" THEN <<"ready">>
             ELSE <<"LED control start (circle pattern)", "PING">>,
     shown |-> <<GREEN_COLOR>>,
     dt |-> 0,
     disp |-> <<>>,
     group |-> <<>>,
     prevDisp |-> <<>>,
     events |-> <<>>,
     act |-> "setup"]

InitHost(connected) ==
    [last_command |-> "0", connected |-> connected, ret |-> TRUE,
     command |-> "", wire |-> <<>>]

InitWith(sketches, connections) ==
    /\ \E k \in sketches : ino = InitSketch(k)
    /\ rx = <<>>
    /\ inLoop = FALSE
    /\ \E c \in connections : host = InitHost(c)
    /\ lastLevelCmd = "0"
    /\ expired = FALSE
    /\ pings = 0
    /\ sent = 0

Init == InitWith({"led_control"}, {TRUE})

(* ------------------------------- actions ------------------------------ *)
\* a byte written to the port by any sender (serial monitor, test script)
HostWrite(b) ==
    /\ Len(rx) < MaxRx
    /\ sent < MaxBytes
    /\ rx' = Append(rx, b)
    /\ sent' = sent + 1
    /\ UNCHANGED <<ino, inLoop, host, lastLevelCmd, expired, pings>>

\* variant: a level command is written even when it repeats last_command
send_command_NoDedupe(command, ok) ==
    /\ (host.connected /\ ok) => (Len(rx) < MaxRx /\ sent < MaxBytes)
    /\ IF ~host.connected
       THEN host' = [host EXCEPT !.ret = FALSE, !.command = command] /\ rx' = rx
       ELSE IF command = "p"
       THEN /\ host' = IF ok
                       THEN [host EXCEPT !.ret = TRUE, !.command = command,
                                         !.wire = Append(@, command)]
                       ELSE [host EXCEPT !.ret = FALSE, !.command = command]
            /\ rx' = IF ok THEN Append(rx, command) ELSE rx
       ELSE /\ host' = IF ok
                       THEN [host EXCEPT !.last_command = command, !.ret = TRUE,
                                         !.command = command,
                                         !.wire = Append(@, command)]
                       ELSE [host EXCEPT !.ret = FALSE, !.command = command]
            /\ rx' = IF ok THEN Append(rx, command) ELSE rx
    /\ sent' = IF Len(rx') > Len(rx) THEN sent + 1 ELSE sent
    /\ UNCHANGED <<ino, inLoop, lastLevelCmd, expired, pings>>

\* variant: last_command is assigned before the write is tried
send_command_AssignsFirst(command, ok) ==
    /\ (host.connected /\ ok /\ (command = "p" \/ command # host.last_command))
           => (Len(rx) < MaxRx /\ sent < MaxBytes)
    /\ IF ~host.connected
       THEN host' = [host EXCEPT !.ret = FALSE, !.command = command] /\ rx' = rx
       ELSE IF command = "p"
       THEN /\ host' = IF ok
                       THEN [host EXCEPT !.ret = TRUE, !.command = command,
                                         !.wire = Append(@, command)]
                       ELSE [host EXCEPT !.ret = FALSE, !.command = command]
            /\ rx' = IF ok THEN Append(rx, command) ELSE rx
       ELSE IF command = host.last_command
       THEN host' = [host EXCEPT !.ret = TRUE, !.command = command] /\ rx' = rx
       ELSE /\ host' = IF ok
                       THEN [host EXCEPT !.last_command = command, !.ret = TRUE,
                                         !.command = command,
                                         !.wire = Append(@, command)]
                       ELSE [host EXCEPT !.last_command = command, !.ret = FALSE,
                                         !.command = command]
            /\ rx' = IF ok THEN Append(rx, command) ELSE rx
    /\ sent' = IF Len(rx') > Len(rx) THEN sent + 1 ELSE sent
    /\ UNCHANGED <<ino, inLoop, lastLevelCmd, expired, pings>>

\* ArduinoController.send_command(command); ok: the serial write succeeds.
\* host.command is the argument of the last call, host.wire the bytes
\* written to the port so far.
send_command(command, ok) ==
    /\ (host.connected /\ ok /\ (command = "p" \/ command # host.last_command))
           => (Len(rx) < MaxRx /\ sent < MaxBytes)
    /\ IF ~host.connected
       THEN host' = [host EXCEPT !.ret = FALSE, !.command = command] /\ rx' = rx
       ELSE IF command = "p"
       THEN /\ host' = IF ok
                       THEN [host EXCEPT !.ret = TRUE, !.command = command,
                                         !.wire = Append(@, command)]
                       ELSE [host EXCEPT !.ret = FALSE, !.command = command]
            /\ rx' = IF ok THEN Append(rx, command) ELSE rx
       ELSE IF command = host.last_command
       THEN host' = [host EXCEPT !.ret = TRUE, !.command = command] /\ rx' = rx
       ELSE /\ host' = IF ok
                       THEN [host EXCEPT !.last_command = command, !.ret = TRUE,
                                         !.command = command,
                                         !.wire = Append(@, command)]
                       ELSE [host EXCEPT !.ret = FALSE, !.command = command]
            /\ rx' = IF ok THEN Append(rx, command) ELSE rx
    /\ sent' = IF Len(rx') > Len(rx) THEN sent + 1 ELSE sent
    /\ UNCHANGED <<ino, inLoop, lastLevelCmd, expired, pings>>

ReadByte ==
    /\ rx # <<>>
    /\ \E next \in {Did(receiveByte(Fresh(ino), rx), "ReadByte")} :
           /\ ino' = next
           /\ IF next.disp # <<>> /\ next.disp[1] \in LevelCommands
              THEN lastLevelCmd' = next.disp[1] /\ expired' = FALSE
              ELSE UNCHANGED <<lastLevelCmd, expired>>
    /\ rx' = Tail(rx)
    /\ inLoop' = TRUE
    /\ UNCHANGED <<host, pings, sent>>

LoopTail(pingDue) ==
    /\ rx = <<>>
    /\ inLoop \/ Due(ino) \/ pingDue
    /\ pingDue => pings < MaxPings
    /\ \E next \in {Did(loopTail(Fresh(ino), pingDue), "LoopTail")} :
           /\ ino' = next
           /\ expired' = (expired \/ \E i \in 1 .. Len(next.events) : next.events[i] = "timeout")
    /\ inLoop' = FALSE
    /\ pings' = IF pingDue THEN pings + 1 ELSE pings
    /\ UNCHANGED <<rx, host, lastLevelCmd, sent>>

LoopIdle ==
    /\ rx = <<>>
    /\ ~inLoop
    /\ ~Due(ino)
    /\ \E next \in {Did(delay(Fresh(ino), LOOP_DELAY * IdleIterations(ino)), "LoopIdle")} :
           ino' = next
    /\ UNCHANGED <<rx, inLoop, host, lastLevelCmd, expired, pings, sent>>

Controller == ReadByte \/ (\E pingDue \in BOOLEAN : LoopTail(pingDue)) \/ LoopIdle

HostCommands == {"0", "1", "2", "p"}

\* the board fed by an arbitrary sender
Next ==
    \/ \E b \in Bytes : HostWrite(b)
    \/ Controller

Spec == Init /\ [][Next]_vars

\* loop() runs for ever
FairSpec == Spec /\ WF_vars(Controller)

\* both circle-pattern sketches
InitVariants == InitWith(Sketches, {TRUE})
SpecVariants == InitVariants /\ [][Next]_vars

\* the board fed by ArduinoController alone
InitHosted == InitWith({"led_control"}, BOOLEAN)
NextHosted ==
    \/ \E c \in HostCommands, ok \in BOOLEAN : send_command(c, ok)
    \/ Controller
SpecHosted == InitHosted /\ [][NextHosted]_vars

(* ------------------- the rendering functions on their own ------------- *)
\* ORANGE_COLOR of the three-level sketch
ORANGE_COLOR == Color(255, 165, 0)

\* colours handed to setCirclePattern and fadeToCirclePattern
RenderColors == {GREEN_COLOR, RED_COLOR, BLACK_COLOR, ORANGE_COLOR, Color(10, 20, 30)}

\* pixel buffers a call may find: one colour everywhere, or two colours
\* in alternating columns or rows
PriorFrames ==
    {[i \in Pixels |-> IF ((i \div w) % 2) = 0 THEN StoredColor(a) ELSE StoredColor(b)] :
         w \in {1, 8}, a \in RenderColors, b \in RenderColors}

\* a sketch that has been idle for long, with some pixel buffer
InitRender ==
    /\ \E k \in Sketches, f \in PriorFrames :
           ino = [InitSketch(k) EXCEPT !.pixels = f, !.out = <<>>, !.shown = <<>>,
                                       !.cmdAge = serialTimeout(k) + 1,
                                       !.blinkAge = BLINK_INTERVAL + 1]
    /\ rx = <<>>
    /\ inLoop = FALSE
    /\ host = InitHost(TRUE)
    /\ lastLevelCmd = "0"
    /\ expired = FALSE
    /\ pings = 0
    /\ sent = 0

\* a call of setCirclePattern(color)
Render(color) ==
    /\ ino' = Did(setCirclePattern(Fresh(ino), color), "setCirclePattern")
    /\ UNCHANGED <<rx, inLoop, host, lastLevelCmd, expired, pings, sent>>

\* a call of fadeToCirclePattern(color, TRANSITION_DURATION)
Fade(color) ==
    /\ ino' = Did(fadeToCirclePattern(Fresh(ino), color, TRANSITION_DURATION),
                  "fadeToCirclePattern")
    /\ UNCHANGED <<rx, inLoop, host, lastLevelCmd, expired, pings, sent>>

NextRender ==
    \/ \E color \in RenderColors : Render(color)
    \/ \E color \in RenderColors : Fade(color)
SpecRender == InitRender /\ [][NextRender]_vars

(* --------- the three-level sketch of README_ARDUINO.md (setColor) ----- *)
PULSE_COUNT == 3
PULSE_TOP == 100
PULSE_FLOOR == 20
PULSE_STEP == 5
PULSE_DELAY == 30

\* setColor(color): every pixel
setColor(st, color) ==
    Only({[s EXCEPT !.pixels = [i \in Pixels |-> StoredColor(color)],
                    !.shown = Append(@, color)] : s \in {st}})

RECURSIVE FadeColorLoop(_, _, _, _, _)
\* for (step = 0; step <= 20; step++) { setColor(...); delay(duration / 20); }
FadeColorLoop(st, oldColor, color, duration, step) ==
    Only({
        IF step <= FADE_STEPS
        THEN FadeColorLoop(delay(setColor(s, FadeColor(oldColor, color, step)),
                                 TruncDiv(duration, FADE_STEPS)),
                           oldColor, color, duration, step + 1)
        ELSE s : s \in {st}})

fadeToColor(st, color, duration) ==
    Only({
        IF getPixelColor(s.pixels, 0) = 0
        THEN setColor(s, color)
        ELSE setColor(FadeColorLoop(s, getPixelColor(s.pixels, 0), color, duration, 0),
                      color) : s \in {st}})

\* uint8_t c; int k; strip.Color(c*k/100, ...): int arithmetic, uint8_t argument
PulseChannel(c, k) == U8(TruncDiv(I16(c * k), 100))
PulseColor(color, k) ==
    Color(PulseChannel(RedOf(color), k), PulseChannel(GreenOf(color), k),
          PulseChannel(BlueOf(color), k))

RECURSIVE PulseDown_ToZero(_, _, _)
\* variant: the ramp goes down to 0 percent
PulseDown_ToZero(st, color, k) ==
    Only({
        IF k >= 0
        THEN PulseDown_ToZero(delay(setColor(s, PulseColor(color, k)), PULSE_DELAY),
                              color, k - PULSE_STEP)
        ELSE s : s \in {st}})

RECURSIVE PulseDown(_, _, _)
\* for (int k = 100; k >= 20; k -= 5) { setColor(...); delay(30); }
PulseDown(st, color, k) ==
    Only({
        IF k >= PULSE_FLOOR
        THEN PulseDown(delay(setColor(s, PulseColor(color, k)), PULSE_DELAY),
                       color, k - PULSE_STEP)
        ELSE s : s \in {st}})

RECURSIVE PulseUp(_, _, _)
\* for (int k = 20; k <= 100; k += 5) { setColor(...); delay(30); }
PulseUp(st, color, k) ==
    Only({
        IF k <= PULSE_TOP
        THEN PulseUp(delay(setColor(s, PulseColor(color, k)), PULSE_DELAY),
                     color, k + PULSE_STEP)
        ELSE s : s \in {st}})

RECURSIVE PulseCycles(_, _, _, _)
\* for (int j = 0; j < count; j++) { darker; brighter }
PulseCycles(st, color, count, j) ==
    Only({
        IF j < count
        THEN PulseCycles(PulseUp(PulseDown(s, color, PULSE_TOP), color, PULSE_FLOOR),
                         color, count, j + 1)
        ELSE s : s \in {st}})

pulseEffect(st, color, count) == setColor(PulseCycles(st, color, count, 0), color)

\* variant: the two-level colours, red for every detection
LevelColor_TwoLevels(level) == IF level = 0 THEN GREEN_COLOR ELSE RED_COLOR

\* the colour pulsed at a level: green, orange, red
LevelColor(level) ==
    IF level = 0 THEN GREEN_COLOR ELSE IF level = 1 THEN ORANGE_COLOR ELSE RED_COLOR

ShowLevelColor(s, color) ==
    IF USE_SMOOTH_TRANSITION THEN fadeToColor(s, color, TRANSITION_DURATION)
    ELSE setColor(s, color)

\* if (Serial.available() > 0) { command = Serial.read(); ... }
readCommand(st, cmd) ==
    Only({
        IF cmd = "0"
        THEN println(ShowLevelColor([s EXCEPT !.command = cmd, !.detectionLevel = 0],
                                    GREEN_COLOR),
                     "state: no detection (green)")
        ELSE IF cmd = "1"
        THEN println(ShowLevelColor([s EXCEPT !.command = cmd, !.detectionLevel = 1],
                                    ORANGE_COLOR),
                     "state: detected (orange)")
        ELSE IF cmd = "2"
        THEN println(ShowLevelColor([s EXCEPT !.command = cmd, !.detectionLevel = 2],
                                    RED_COLOR),
                     "state: danger (red)")
        ELSE IF cmd = "p"
        THEN pulseEffect([s EXCEPT !.command = cmd], LevelColor(s.detectionLevel),
                         PULSE_COUNT)
        ELSE [s EXCEPT !.command = cmd] : s \in {st}})

\* if (detectionLevel == 2) { every 500 ms: red, off, red, ... }
DangerBlinkDue(s) == s.detectionLevel = 2 /\ s.blinkAge > BLINK_INTERVAL
dangerBlink(st) ==
    Only({
        IF DangerBlinkDue(s)
        THEN setColor([s EXCEPT !.blinkAge = 0, !.blinkState = ~@,
                                !.events = Append(@, "toggle")],
                      IF s.blinkState THEN BLACK_COLOR ELSE RED_COLOR)
        ELSE s : s \in {st}})

\* what loop() does after the command block
threeLevelTail(s) == delay(dangerBlink(s), LOOP_DELAY)

\* the sketch after setup(): every pixel green; it has no idle timeout, and
\* the idle time kept in the record stays past its cap
InitThreeLevel ==
    /\ ino = [InitSketch("three_level") EXCEPT
                  !.pixels = [i \in Pixels |-> StoredColor(GREEN_COLOR)],
                  !.out = <<"LED control start">>,
                  !.cmdAge = serialTimeout("three_level") + 1,
                  !.blinkAge = 0]
    /\ rx = <<>>
    /\ inLoop = FALSE
    /\ host = InitHost(TRUE)
    /\ lastLevelCmd = "0"
    /\ expired = FALSE
    /\ pings = 0
    /\ sent = 0

\* the command block of one loop(): it reads one byte
ThreeLevelRead ==
    /\ rx # <<>>
    /\ ~inLoop
    /\ ino' = Did(readCommand(Fresh(ino), Head(rx)), "readCommand")
    /\ rx' = Tail(rx)
    /\ inLoop' = TRUE
    /\ UNCHANGED <<host, lastLevelCmd, expired, pings, sent>>

\* the rest of that loop(), or a loop() that has a blink toggle to do
ThreeLevelTail ==
    /\ inLoop \/ (rx = <<>> /\ DangerBlinkDue(ino))
    /\ ino' = Did(threeLevelTail(Fresh(ino)), "threeLevelTail")
    /\ inLoop' = FALSE
    /\ UNCHANGED <<rx, host, lastLevelCmd, expired, pings, sent>>

\* loop() executions in a row that find no byte and no toggle to do
ThreeLevelIdle ==
    /\ rx = <<>>
    /\ ~inLoop
    /\ ~DangerBlinkDue(ino)
    /\ ino' = Did(delay(Fresh(ino), LOOP_DELAY * StepsPast(ino.blinkAge, BLINK_INTERVAL)),
                  "threeLevelIdle")
    /\ UNCHANGED <<rx, inLoop, host, lastLevelCmd, expired, pings, sent>>

ThreeLevelBytes == {"0", "1", "2", "p", "x"}

NextThreeLevel ==
    \/ \E b \in ThreeLevelBytes : HostWrite(b)
    \/ ThreeLevelRead
    \/ ThreeLevelTail
    \/ ThreeLevelIdle
SpecThreeLevel == InitThreeLevel /\ [][NextThreeLevel]_vars

(* ======================================================================= *)
(*                               properties                                *)
(* ======================================================================= *)
LastLine(s) == s.out[Len(s.out)]
IsAckLine(line) == line \in {"S:" \o DecStr(n) : n \in 0 .. 9}
AckCount(s) == Cardinality({i \in 1 .. Len(s.out) : IsAckLine(s.out[i])})
Happened(s, e) == \E i \in 1 .. Len(s.events) : s.events[i] = e
Dispatched(s, cmd) == s.disp = <<cmd>>

\* the level a level command stands for: '0' none, '1' and '2' detected
LevelOf(cmd) == IF cmd = "0" THEN 0 ELSE 1

\* the step is one iteration of the receive loop / the rest of one loop()
ReadByteStep == rx # <<>> /\ rx' = Tail(rx) /\ ino'.act = "ReadByte"
LoopTailStep ==
    /\ rx = <<>> /\ rx' = <<>> /\ sent' = sent /\ host' = host
    /\ ino'.act = "LoopTail" /\ ~inLoop'

(* ----------------------------------------------------------------------- *)
\* C1: every dispatch of a level command prints exactly one acknowledgment,
\* as the last line of that dispatch, carrying the level the command stands
\* for, and leaves detectionLevel at that level; between dispatches
\* detectionLevel is the level of the last dispatched level command unless
\* the idle timeout has reset it to 0.
C1_AckFollowsCommand ==
    /\ \A cmd \in LevelCommands :
           Dispatched(ino, cmd) =>
               /\ AckCount(ino) = 1
               /\ LastLine(ino) = "S:" \o DecStr(LevelOf(cmd))
               /\ ino.detectionLevel = LevelOf(cmd)
    /\ ino.disp = <<>> => AckCount(ino) = 0
    /\ ino.detectionLevel = (IF expired THEN 0 ELSE LevelOf(lastLevelCmd))

\* a '0' dispatched after a detection command, acknowledged S:0
C1_Witness ==
    /\ Dispatched(ino, "0") /\ LastLine(ino) = "S:0"
    /\ Len(ino.shown) > 1 /\ RedOf(ino.shown[1]) > 0

(* ----------------------------------------------------------------------- *)
\* C2: in both sketches, a loop() that starts with the idle timeout elapsed
\* and a level other than 0 sets the level to 0 and renders green, once;
\* the timeout transition is taken only from a level other than 0, so it is
\* not taken again until a command has made the level non-zero.
C2_TimeoutOnce ==
    [][LoopTailStep =>
          /\ TimeoutDue(ino) =>
                 /\ Happened(ino', "timeout")
                 /\ Cardinality({i \in 1 .. Len(ino'.events) : ino'.events[i] = "timeout"}) = 1
                 /\ ino'.detectionLevel = 0
                 /\ ino'.pixels = GreenFrame
                 /\ ino'.shown[Len(ino'.shown)] = GREEN_COLOR
          /\ Happened(ino', "timeout") => (ino.detectionLevel # 0 /\ ~expired)
          /\ (ino.detectionLevel = 0 \/ expired) => ~Happened(ino', "timeout")
      ]_vars

\* the variant's timeout has fired after a second command
C2_Witness ==
    /\ ino.sketch = "part_001" /\ Happened(ino, "timeout")
    /\ sent = 2 /\ ino.detectionLevel = 0 /\ ino.pixels = GreenFrame

(* ----------------------------------------------------------------------- *)
\* C3: once '1' has set the level to 1, the controller reaches level 0 with
\* the blink flag cleared and the green circle shown, unless a byte arrives
\* first; and while no byte arrives a green level-0 display stays green.
Fallback == ino.detectionLevel = 0 /\ ~ino.isBlinking /\ ino.pixels = GreenFrame

C3_FallbackToGreen ==
    /\ (Dispatched(ino, "1") /\ ino.detectionLevel = 1) ~> (Fallback \/ rx # <<>>)
    /\ [][(Fallback /\ rx = <<>> /\ rx' = <<>>) => Fallback']_vars

\* the fallback has happened by the timeout alone
C3_Witness == Fallback /\ expired /\ lastLevelCmd = "1" /\ ino.command = "1"

(* ----------------------------------------------------------------------- *)
\* C4 (as claimed): whenever the command ArduinoController last wrote is a
\* detection command and the board has dispatched it, the level is 1 and the
\* display is the red circle or its blink-off phase.
C4_DetectionShown ==
    (host.last_command \in {"1", "2"} /\ ino.command = host.last_command /\ rx = <<>>)
        => (ino.detectionLevel = 1 /\ ino.pixels \in {RedFrame, OffFrame})

(* ----------------------------------------------------------------------- *)
\* C5 (as claimed): dispatching '2' is acknowledged with "S:2".
C5_AckTwo == Dispatched(ino, "2") => LastLine(ino) = "S:2"

\* C5 (amended): dispatching '2' sets the level to 1 (detected) and is
\* acknowledged with "S:1", the line '1' is acknowledged with.
C5_AckOfTwoIsLevel ==
    Dispatched(ino, "2") =>
        (ino.detectionLevel = 1 /\ LastLine(ino) = "S:1" /\ ino.command = "2")

C5_Witness == Dispatched(ino, "2") /\ ino.pixels = RedFrame

(* ----------------------------------------------------------------------- *)
\* C6: a dispatch of a character other than '0', '1', '2', 'v' leaves
\* detectionLevel, isBlinking, verboseLogging and the pixels as they were,
\* renders nothing, and prints nothing but the log lines and the
\* acknowledgment.
Unrecognized == Bytes \ (LevelCommands \cup Terminators \cup {"v"})

C6_UnrecognizedKeepsState ==
    [][(ReadByteStep /\ \E c \in Unrecognized : Dispatched(ino', c)) =>
          /\ ino'.detectionLevel = ino.detectionLevel
          /\ ino'.isBlinking = ino.isBlinking
          /\ ino'.verboseLogging = ino.verboseLogging
          /\ ino'.pixels = ino.pixels
          /\ ino'.blinkState = ino.blinkState
          /\ ino'.shown = <<>>
          /\ ino'.dt = 0
          /\ \A i \in 1 .. Len(ino'.out) :
                 \/ IsAckLine(ino'.out[i])
                 \/ ino'.verboseLogging
      ]_vars

\* 'p' dispatched while the detection display is on
C6_Witness ==
    /\ \E c \in Unrecognized : Dispatched(ino, c)
    /\ ino.detectionLevel = 1 /\ ino.isBlinking

(* ----------------------------------------------------------------------- *)
\* C7 (as claimed): a dispatch of a character other than '0', '1', '2',
\* 'p', 'v' writes nothing to the host.
C7_UnrecognizedSilent == Dispatched(ino, "x") => ino.out = <<>>

\* C7 (amended): such a dispatch writes the acknowledgment "S:<level>" with
\* the current level, once, as its last line, and with verbose logging off
\* it writes nothing else.
C7_UnrecognizedAcked ==
    Dispatched(ino, "x") =>
        /\ ino.out # <<>>
        /\ LastLine(ino) = "S:" \o DecStr(ino.detectionLevel)
        /\ AckCount(ino) = 1
        /\ ~ino.verboseLogging => Len(ino.out) = 1

C7_Witness == Dispatched(ino, "x") /\ ino.out = <<"S:1">>

(* ----------------------------------------------------------------------- *)
\* C8: a dispatch of 'v' flips verboseLogging and leaves detectionLevel,
\* isBlinking and the pixels as they were, rendering nothing; a second 'v'
\* dispatched next gives verboseLogging its value from before the first.
C8_VerboseOnlyToggles ==
    [][(ReadByteStep /\ Dispatched(ino', "v")) =>
          /\ ino'.verboseLogging = ~ino.verboseLogging
          /\ ino'.detectionLevel = ino.detectionLevel
          /\ ino'.isBlinking = ino.isBlinking
          /\ ino'.pixels = ino.pixels
          /\ ino'.shown = <<>>
          /\ processCommand(ino', "v").verboseLogging = ino.verboseLogging
          /\ processCommand(ino', "v").pixels = ino.pixels
          /\ processCommand(ino', "v").detectionLevel = ino.detectionLevel
          /\ Dispatched(ino, "v") => ino'.verboseLogging = ~ino.verboseLogging
      ]_vars

\* the second of two 'v' in a row has switched verbose logging off again
C8_Witness == Dispatched(ino, "v") /\ ino.prevDisp = <<"v">> /\ ~ino.verboseLogging

(* ----------------------------------------------------------------------- *)
\* C9: dispatching a level command once more right after it has been
\* dispatched gives the detectionLevel, isBlinking, pixels and blinkState the
\* first dispatch gave, and leaves lastBlinkTime untouched (the blink age only
\* grows by the time the second dispatch takes); this holds for the dispatch
\* applied again to the outcome of every dispatch, and for every two
\* dispatches that follow each other in the receive loop.
SamePhase(once, twice) ==
    /\ twice.detectionLevel = once.detectionLevel
    /\ twice.isBlinking = once.isBlinking
    /\ twice.pixels = once.pixels
    /\ twice.blinkState = once.blinkState
    /\ twice.blinkAge = Sat(once.blinkAge + twice.dt, BLINK_INTERVAL)

C10_BlinkUntilCommand ==
    [][(BlinkEnabled(ino) /\ ino'.disp = <<>>) => BlinkEnabled(ino')]_vars

\* C10 (amended): '1' is acknowledged with "S:1" and leaves the red circle
\* and the blink flag set; while blinking is on, a loop() that finds more
\* than 500 ms since the last toggle toggles, no toggle comes sooner, a
\* toggle shows red when blinkState becomes true and off when it becomes
\* false; and the blinking is stopped only by a dispatched command or by the
\* idle timeout.
C10_BlinkUntilCommandOrTimeout ==
    [][/\ (ReadByteStep /\ Dispatched(ino', "1")) =>
              /\ LastLine(ino') = "S:1"
              /\ ino'.pixels = RedFrame
              /\ BlinkEnabled(ino')
       /\ LoopTailStep =>
              /\ (BlinkEnabled(ino) /\ ino.blinkAge > BLINK_INTERVAL) => Happened(ino', "toggle")
              /\ Happened(ino', "toggle") =>
                     /\ BlinkEnabled(ino) /\ ino.blinkAge > BLINK_INTERVAL
                     /\ ino'.blinkState = ~ino.blinkState
                     /\ ino'.shown[1] = (IF ino'.blinkState THEN RED_COLOR ELSE BLACK_COLOR)
                     /\ ~Happened(ino', "timeout") =>
                            ino'.pixels = (IF ino'.blinkState THEN RedFrame ELSE OffFrame)
              /\ ~Happened(ino', "toggle") => ino'.blinkState = ino.blinkState
       /\ (BlinkEnabled(ino) /\ ino'.disp = <<>> /\ ~Happened(ino', "timeout"))
              => BlinkEnabled(ino')
      ]_vars

\* a later on-phase of the blinking: red shown again by a toggle
C10_Witness ==
    /\ Happened(ino, "toggle") /\ ino.blinkState /\ ino.pixels = RedFrame
    /\ lastLevelCmd = "1" /\ ino.cmdAge > 2 * BLINK_INTERVAL

(* ----------------------------------------------------------------------- *)
\* C11: after setCirclePattern(color), for every x and y in 0..7 the pixel
\* y*8+x holds the colour when (x-3)^2 + (y-3)^2 <= 16 and black otherwise,
\* whatever the pixel buffer held before the call.
C11_CircleMask ==
    (ino.act = "setCirclePattern") =>
        /\ Len(ino.shown) = 1
        /\ \A x \in 0 .. 7, y \in 0 .. 7 :
               ino.pixels[y * 8 + x] =
                   IF (x - 3) * (x - 3) + (y - 3) * (y - 3) <= 16
                   THEN StoredColor(ino.shown[1])
                   ELSE StoredColor(BLACK_COLOR)

\* orange rendered: the centre and the two pixels at distance 4 are lit,
\* a corner is black
C11_Witness ==
    /\ ino.act = "setCirclePattern" /\ ino.shown = <<ORANGE_COLOR>>
    /\ ino.pixels[27] = StoredColor(ORANGE_COLOR)
    /\ ino.pixels[31] = StoredColor(ORANGE_COLOR)
    /\ ino.pixels[59] = StoredColor(ORANGE_COLOR)
    /\ ino.pixels[63] = StoredColor(BLACK_COLOR)

(* ----------------------------------------------------------------------- *)
\* C12: every fadeToCirclePattern(color) ends with the frame that
\* setCirclePattern(color) gives, the target colour on every channel of every
\* pixel of the circle, also when it fades back to the colour that was
\* displayed before the previous fade.
TargetFrame(color) ==
    [i \in Pixels |->
        IF ((i % 8) - 3) * ((i % 8) - 3) + ((i \div 8) - 3) * ((i \div 8) - 3) <= 16
        THEN StoredColor(color) ELSE StoredColor(BLACK_COLOR)]

C12_FadeEndsOnTarget ==
    [][\A color \in RenderColors :
           (ino' = Did(fadeToCirclePattern(Fresh(ino), color, TRANSITION_DURATION),
                       "fadeToCirclePattern"))
               => /\ ino'.pixels = TargetFrame(color)
                  /\ ino'.shown # <<>>
                  /\ ino'.shown[Len(ino'.shown)] = color
      ]_vars

\* green reached again by a fade that started from the red circle
C12_Witness ==
    /\ ino.act = "fadeToCirclePattern" /\ Len(ino.shown) > 1
    /\ RedOf(ino.shown[1]) > 0 /\ GreenOf(ino.shown[1]) = 0 /\ BlueOf(ino.shown[1]) = 0
    /\ ino.shown[Len(ino.shown)] = GREEN_COLOR
    /\ ino.pixels = TargetFrame(GREEN_COLOR)

(* ----------------------------------------------------------------------- *)
\* C16 (as claimed): a fade from a colour other than black renders exactly
\* 20 interpolation steps and its delays add up to TRANSITION_DURATION.
C16_TwentySteps ==
    (ino.act = "fadeToCirclePattern" /\ Len(ino.shown) > 1) =>
        /\ Len(ino.shown) - 1 = FADE_STEPS
        /\ ino.dt = TRANSITION_DURATION

(* ----------------------------------------------------------------------- *)
\* C13: in both sketches an iteration of the receive loop dispatches at most
\* once; it dispatches when the buffered group is not empty and the byte read
\* is a terminator or the receive queue is drained, the command is the first
\* character of the group, the others are dropped, and the buffer is empty
\* afterwards; otherwise it dispatches nothing and keeps the group.  The
\* burst "10" read together leaves the level at 1.
Buffered(s, b) == IF b \in Terminators THEN s.inputString ELSE Append(s.inputString, b)
Fires(s, q) == Buffered(s, Head(q)) # <<>> /\ (Head(q) \in Terminators \/ Len(q) = 1)

C13_FirstCharacter ==
    [][ReadByteStep =>
          /\ Fires(ino, rx) =>
                 /\ ino'.disp = <<Buffered(ino, Head(rx))[1]>>
                 /\ ino'.command = Buffered(ino, Head(rx))[1]
                 /\ ino'.group = Buffered(ino, Head(rx))
                 /\ ino'.inputString = <<>>
                 /\ Buffered(ino, Head(rx)) = <<"1", "0">> => ino'.detectionLevel = 1
          /\ ~Fires(ino, rx) =>
                 /\ ino'.disp = <<>>
                 /\ ino'.inputString = Buffered(ino, Head(rx))
                 /\ ino'.command = ino.command
                 /\ ino'.detectionLevel = ino.detectionLevel
                 /\ ino'.out = <<>> /\ ino'.shown = <<>>
      ]_vars

\* the burst "10" was dispatched as '1'
C13_Witness ==
    /\ ino.group = <<"1", "0">> /\ ino.disp = <<"1">>
    /\ ino.detectionLevel = 1 /\ ino.inputString = <<>> /\ ino.pixels = RedFrame

(* ----------------------------------------------------------------------- *)
\* C14: every byte read by receiveSerialCommand, a terminator with an empty
\* buffer, an unrecognized character and 'v' included, sets lastCommandTime
\* to the time of the read (after the iteration the idle time is only the
\* time the iteration itself took), and the idle timeout fires only when
\* more than serialTimeout has passed since the last byte was read.
C14_EveryByteRearms ==
    /\ ino.act = "ReadByte" => ino.cmdAge = ino.dt
    /\ Happened(ino, "timeout") => ino.cmdAge > serialTimeout(ino.sketch)

\* a terminator read with an empty buffer during a detection
C14_Witness ==
    /\ ino.act = "ReadByte" /\ ino.disp = <<>> /\ ino.inputString = <<>>
    /\ ino.cmdAge = 0 /\ ino.detectionLevel = 1 /\ ino.isBlinking

(* ----------------------------------------------------------------------- *)
\* C15: an iteration of the receive loop in which a fade runs consumes the
\* one byte it read and no other, dispatches one level command, leaves
\* detectionLevel and isBlinking at what that command set before the fade,
\* toggles no blink and takes no timeout transition although the blink
\* interval may elapse meanwhile, renders the whole fade up to its target,
\* and prints the acknowledgment last, after the fade is done; a byte that
\* arrives meanwhile is still in the receive queue afterwards.
FadeTarget(cmd) == IF cmd = "0" THEN GREEN_COLOR ELSE RED_COLOR

C15_NoCancellation ==
    [][(ReadByteStep /\ ino'.dt > 0) =>
          /\ Len(rx') = Len(rx) - 1
          /\ ino'.events = <<>>
          /\ ino'.blinkState = ino.blinkState
          /\ Len(ino'.disp) = 1 /\ ino'.disp[1] \in LevelCommands
          /\ ino'.detectionLevel = LevelOf(ino'.disp[1])
          /\ ino'.isBlinking = (ino'.disp[1] # "0")
          /\ ino'.dt = (FADE_STEPS + 1) * (TRANSITION_DURATION \div FADE_STEPS)
          /\ Len(ino'.shown) = FADE_STEPS + 2
          /\ ino'.shown[Len(ino'.shown)] = FadeTarget(ino'.disp[1])
          /\ AckCount(ino') = 1 /\ IsAckLine(LastLine(ino'))
          /\ ino'.verboseLogging =>
                 \E i \in 1 .. Len(ino'.out) - 1 : ino'.out[i] = "fade done"
      ]_vars

\* '1' faded in while the blink interval elapsed, and a byte is waiting
C15_Witness ==
    /\ ino.act = "ReadByte" /\ ino.dt > 0 /\ Dispatched(ino, "1")
    /\ ino.blinkAge > BLINK_INTERVAL /\ ino.events = <<>> /\ rx # <<>>

(* ----------------------------------------------------------------------- *)
\* C17: processCommand with a character other than '0', '1', '2', 'v' prints
\* "S:<level>" where the level is the one in force before the dispatch: that
\* of the last level command, or 0 after the idle timeout.
C17_UnrecognizedEchoesLevel ==
    \A c \in Unrecognized :
        Dispatched(ino, c) =>
            /\ ino.out # <<>>
            /\ ino.command = c
            /\ LastLine(ino) = "S:" \o DecStr(IF expired THEN 0 ELSE LevelOf(lastLevelCmd))

\* 'p' dispatched during a detection is answered S:1
C17_Witness ==
    /\ Dispatched(ino, "p") /\ lastLevelCmd = "1" /\ ~expired
    /\ LastLine(ino) = "S:1"

(* ----------------------------------------------------------------------- *)
(* one command line sent to led_control.ino (receiveSerialCommand)         *)
(* ----------------------------------------------------------------------- *)
\* The sender writes one command character and a line ending, byte by
\* byte; the board runs between any two bytes, so the bytes reach the
\* receive loop together, one by one, or split anywhere.  A byte that
\* arrives while an iteration of the while loop is running counts as
\* arrived before it when the iteration has not yet tested
\* Serial.available() == 0, and after it otherwise.
\* host.line is the line, sent of its bytes are written, host.dispatched
\* collects the arguments of all calls of processCommand.
RecognizedCommands == LevelCommands \cup {"v"}
LineEndings == {<<>>, <<"\n">>, <<"\r">>, <<"\r", "\n">>}
CommandLines == {<<c>> \o e : c \in RecognizedCommands, e \in LineEndings}

InitLine ==
    /\ ino = InitSketch("led_control")
    /\ rx = <<>>
    /\ inLoop = FALSE
    /\ \E l \in CommandLines : host = [line |-> l, dispatched |-> <<>>]
    /\ lastLevelCmd = "0"
    /\ expired = FALSE
    /\ pings = 0
    /\ sent = 0

SendLineByte ==
    /\ sent < Len(host.line)
    /\ rx' = Append(rx, host.line[sent + 1])
    /\ sent' = sent + 1
    /\ UNCHANGED <<ino, inLoop, host, lastLevelCmd, expired, pings>>

\* ReadByte, with the calls of processCommand collected
ReceiveLineByte ==
    /\ rx # <<>>
    /\ \E next \in {Did(receiveByte(Fresh(ino), rx), "ReadByte")} :
           /\ ino' = next
           /\ host' = [host EXCEPT !.dispatched = @ \o next.disp]
           /\ IF next.disp # <<>> /\ next.disp[1] \in LevelCommands
              THEN lastLevelCmd' = next.disp[1] /\ expired' = FALSE
              ELSE UNCHANGED <<lastLevelCmd, expired>>
    /\ rx' = Tail(rx)
    /\ inLoop' = TRUE
    /\ UNCHANGED <<pings, sent>>

NextLine ==
    \/ SendLineByte
    \/ ReceiveLineByte
    \/ \E pingDue \in BOOLEAN : LoopTail(pingDue)
    \/ LoopIdle
SpecLine == InitLine /\ [][NextLine]_vars

(* ----------------------------------------------------------------------- *)
(* the RGB LED sketch part_000, next to led_control.ino                    *)
(* ----------------------------------------------------------------------- *)
\* analogWrite on RED_PIN, GREEN_PIN, BLUE_PIN
Duty(r, g, b) == [RED_PIN |-> r, GREEN_PIN |-> g, BLUE_PIN |-> b]
setGreen(s) == [s EXCEPT !.pins = Duty(0, 255, 0)]
setOrange(s) == [s EXCEPT !.pins = Duty(255, 165, 0)]
setRed(s) == [s EXCEPT !.pins = Duty(255, 0, 0)]

\* command = Serial.read(); if (command == '0') ... else if ... '2'
rgbCommand(st, cmd) ==
    Only({
        IF cmd = "0" THEN setGreen([s EXCEPT !.command = cmd, !.detectionLevel = 0])
        ELSE IF cmd = "1" THEN setOrange([s EXCEPT !.command = cmd, !.detectionLevel = 1])
        ELSE IF cmd = "2" THEN setRed([s EXCEPT !.command = cmd, !.detectionLevel = 2])
        ELSE [s EXCEPT !.command = cmd] : s \in {st}})

\* after setup(); the global command is zero-initialised (written "")
InitRgb ==
    /\ ino = setGreen([sketch |-> "part_000", command |-> "", detectionLevel |-> 0,
                       pins |-> Duty(0, 0, 0), act |-> "setup"])
    /\ rx = <<>>
    /\ inLoop = FALSE
    /\ host = InitHost(TRUE)
    /\ lastLevelCmd = "0"
    /\ expired = FALSE
    /\ pings = 0
    /\ sent = 0

\* loop() with a byte available; without one loop() only runs delay(10),
\* which changes nothing here
RgbLoop ==
    /\ ino.sketch = "part_000"
    /\ rx # <<>>
    /\ ino' = Did(rgbCommand(ino, Head(rx)), "loop")
    /\ rx' = Tail(rx)
    /\ UNCHANGED <<inLoop, host, lastLevelCmd, expired, pings, sent>>

\* led_control.ino or part_000, fed by an arbitrary sender
InitBoards == Init \/ InitRgb
NextBoards ==
    \/ \E b \in Bytes : HostWrite(b)
    \/ ino.sketch = "led_control" /\ ReadByte
    \/ ino.sketch = "led_control" /\ \E pingDue \in BOOLEAN : LoopTail(pingDue)
    \/ ino.sketch = "led_control" /\ LoopIdle
    \/ RgbLoop
SpecBoards == InitBoards /\ [][NextBoards]_vars

(* ----------------------------------------------------------------------- *)
(* one channel of the fade loop of fadeToCirclePattern, on its own         *)
(* ----------------------------------------------------------------------- *)
Channel == 0 .. 255

\* oldR and newR are any two uint8_t values; the loop has not yet run
InitFade ==
    /\ \E old \in Channel, new \in Channel :
           ino = [sketch |-> "led_control", old |-> old, new |-> new,
                  step |-> 0, r |-> old, act |-> "fadeToCirclePattern"]
    /\ rx = <<>>
    /\ inLoop = FALSE
    /\ host = InitHost(TRUE)
    /\ lastLevelCmd = "0"
    /\ expired = FALSE
    /\ pings = 0
    /\ sent = 0

\* one iteration of the for loop: r is computed for the current step
FadeStep ==
    /\ ino.step <= FADE_STEPS
    /\ ino' = [ino EXCEPT !.r = FadeChannel(ino.old, ino.new, ino.step),
                          !.step = @ + 1, !.act = "fadeStep"]
    /\ UNCHANGED <<rx, inLoop, host, lastLevelCmd, expired, pings, sent>>

NextFade == FadeStep
SpecFade == InitFade /\ [][NextFade]_vars

(* ----------------------------------------------------------------------- *)
\* C18: in the three-level sketch the command 'p' leaves detectionLevel as
\* it was, pulses the colour of that level (green for 0, orange for 1, red
\* for 2: the pulse starts at that colour and never exceeds it on a
\* channel), prints nothing, and when pulseEffect returns every pixel holds
\* that colour at full value.
ThreeLevelReadStep == rx # <<>> /\ rx' = Tail(rx) /\ ino'.act = "readCommand"
ColorOfLevel(level) ==
    IF level = 0 THEN Color(0, 255, 0)
    ELSE IF level = 1 THEN Color(255, 165, 0)
    ELSE Color(255, 0, 0)

C18_PulseKeepsLevel ==
    [][(ThreeLevelReadStep /\ Head(rx) = "p") =>
          /\ ino'.detectionLevel = ino.detectionLevel
          /\ ino'.shown # <<>>
          /\ ino'.shown[1] = ColorOfLevel(ino.detectionLevel)
          /\ ino'.shown[Len(ino'.shown)] = ColorOfLevel(ino.detectionLevel)
          /\ \A i \in 1 .. Len(ino'.shown) :
                 /\ RedOf(ino'.shown[i]) <= RedOf(ColorOfLevel(ino.detectionLevel))
                 /\ GreenOf(ino'.shown[i]) <= GreenOf(ColorOfLevel(ino.detectionLevel))
                 /\ BlueOf(ino'.shown[i]) <= BlueOf(ColorOfLevel(ino.detectionLevel))
          /\ \A i \in Pixels :
                 ino'.pixels[i] = StoredColor(ColorOfLevel(ino.detectionLevel))
          /\ ino'.out = <<>>
          /\ ino'.blinkState = ino.blinkState
      ]_vars

\* a pulse at level 1 has returned with every pixel orange
C18_Witness ==
    /\ ino.act = "readCommand" /\ ino.command = "p" /\ ino.detectionLevel = 1
    /\ Len(ino.shown) > 1
    /\ \A i \in Pixels : ino.pixels[i] = StoredColor(Color(255, 165, 0))

(* ----------------------------------------------------------------------- *)
\* C19: pulseEffect(color, count) ends after exactly count cycles; a cycle
\* renders the percentages 100, 95, ..., 20 and then 20, 25, ..., 100, each
\* followed by a delay of 30 ms; no percentage is below 20 or above 100;
\* every rendered channel is c*k/100, which lies in 0..c, and c*k fits a
\* 16-bit signed int; then the colour itself is rendered.
RampLength == 2 * (((100 - 20) \div 5) + 1)
PercentAt(i) ==
    IF (i - 1) % RampLength < RampLength \div 2
    THEN 100 - 5 * ((i - 1) % RampLength)
    ELSE 20 + 5 * (((i - 1) % RampLength) - RampLength \div 2)
ChannelPulsed(shown, c, i) ==
    /\ c * PercentAt(i) <= 32767
    /\ shown = (c * PercentAt(i)) \div 100
    /\ shown \in 0 .. c

C19_PulseBounded ==
    (ino.act = "readCommand" /\ ino.command = "p") =>
        /\ Len(ino.shown) = PULSE_COUNT * RampLength + 1
        /\ ino.dt = PULSE_COUNT * RampLength * 30
        /\ \A i \in 1 .. Len(ino.shown) - 1 :
               /\ PercentAt(i) \in 20 .. 100
               /\ ChannelPulsed(RedOf(ino.shown[i]),
                                RedOf(ino.shown[Len(ino.shown)]), i)
               /\ ChannelPulsed(GreenOf(ino.shown[i]),
                                GreenOf(ino.shown[Len(ino.shown)]), i)
               /\ ChannelPulsed(BlueOf(ino.shown[i]),
                                BlueOf(ino.shown[Len(ino.shown)]), i)

\* a red pulse has ended: its 17th render was the floor of 20 percent
C19_Witness ==
    /\ ino.act = "readCommand" /\ ino.command = "p" /\ ino.detectionLevel = 2
    /\ Len(ino.shown) = 103 /\ ino.shown[17] = Color(51, 0, 0)
    /\ ino.shown[103] = Color(255, 0, 0) /\ ino.dt = 3060

(* ----------------------------------------------------------------------- *)
\* C20: a call of ArduinoController.send_command writes at most its one
\* command byte; a level command ('0', '1', '2') is written only if it
\* differs from last_command, and last_command then becomes that command
\* and otherwise stays; so no two consecutive level commands on the port
\* are equal and the first level command on the port is not '0'; the call
\* with 'p' never changes last_command, and it writes 'p' whenever it
\* returns True, which it does unless the controller is not connected or
\* the write raises.
IsHostLevel(c) == c \in {"0", "1", "2"}
LevelsWritten == SelectSeq(host.wire, IsHostLevel)
NoRepeatedLevel ==
    /\ \A i \in 1 .. Len(LevelsWritten) - 1 : LevelsWritten[i] # LevelsWritten[i + 1]
    /\ LevelsWritten # <<>> => LevelsWritten[1] # "0"
HostCall == host' # host
Wrote == host'.wire = Append(host.wire, host'.command)
LevelCall ==
    (HostCall /\ IsHostLevel(host'.command)) =>
        /\ Wrote \/ host'.wire = host.wire
        /\ Wrote => /\ host'.command # host.last_command
                    /\ host'.last_command = host'.command
        /\ ~Wrote => host'.last_command = host.last_command
PulseCallKeepsLast ==
    (HostCall /\ host'.command = "p") =>
        /\ Wrote \/ host'.wire = host.wire
        /\ host'.last_command = host.last_command

C20_HostDeduplication ==
    /\ []NoRepeatedLevel
    /\ [][/\ LevelCall
          /\ PulseCallKeepsLast
          /\ (HostCall /\ host'.command = "p") => (Wrote <=> host'.ret)
       ]_vars

\* '1' was written, then 'p', and a second call with '1' wrote nothing
C20_Witness ==
    /\ host.wire = <<"1", "p">> /\ host.last_command = "1"
    /\ host.command = "1" /\ host.ret

\* C20 as stated: 'p' is written on every call
C20_PulseWrittenOnEveryCall ==
    /\ []NoRepeatedLevel
    /\ [][/\ LevelCall
          /\ PulseCallKeepsLast
          /\ (HostCall /\ host'.command = "p") => Wrote
       ]_vars

(* ----------------------------------------------------------------------- *)
\* C21: a recognized character c followed by "\n", "\r", "\r\n" or nothing
\* makes receiveSerialCommand call processCommand(c) exactly once, however
\* the arrival of the bytes interleaves with the receive loop: at no time
\* has anything but the one call processCommand(c) happened, and once every
\* byte of the line is read that call has happened.
LineRead == sent = Len(host.line) /\ rx = <<>>

C21_DispatchedOnce ==
    /\ host.dispatched \in {<<>>, <<host.line[1]>>}
    /\ LineRead => host.dispatched = <<host.line[1]>>

\* "1\r\n" was read to its end, '1' was dispatched by an earlier iteration
\* and the final "\n" dispatched nothing
C21_Witness ==
    /\ host.line = <<"1", "\r", "\n">> /\ LineRead
    /\ host.dispatched = <<"1">>
    /\ ino.act = "ReadByte" /\ ino.disp = <<>>
    /\ ino.detectionLevel = 1

(* ----------------------------------------------------------------------- *)
\* C22: whenever receiveSerialCommand of led_control.ino returns, that is
\* whenever its while loop finds the receive queue empty, and so all the
\* time the sketch is outside the loop, the static inputString is empty,
\* whatever bytes arrived and whenever they arrived.
C22_BufferEmptyAtExit ==
    (rx = <<>> \/ ~inLoop) => ino.inputString = <<>>

\* the burst "10" was buffered over two iterations, dispatched when the
\* queue ran empty, and the loop is about to exit with an empty buffer
C22_Witness ==
    /\ ino.act = "ReadByte" /\ inLoop /\ rx = <<>>
    /\ ino.group = <<"1", "0">> /\ ino.dt > 0
    /\ ino.inputString = <<>>

(* ----------------------------------------------------------------------- *)
\* C23: initially and after every execution of loop() of led_control.ino,
\* detectionLevel = 0 implies that the frame is the green circle and
\* detectionLevel = 1 implies that it is the red circle or all pixels off;
\* in part_000 the RGB output is green, orange or red exactly when
\* detectionLevel is 0, 1 or 2.
C23_LevelMatchesFrame ==
    /\ (ino.sketch = "led_control" /\ ~inLoop) =>
           /\ ino.detectionLevel = 0 => ino.pixels = GreenFrame
           /\ ino.detectionLevel = 1 => ino.pixels \in {RedFrame, AllOff}
    /\ ino.sketch = "part_000" =>
           /\ ino.pins \in {Duty(0, 255, 0), Duty(255, 165, 0), Duty(255, 0, 0)}
           /\ ino.pins = Duty(0, 255, 0) <=> ino.detectionLevel = 0
           /\ ino.pins = Duty(255, 165, 0) <=> ino.detectionLevel = 1
           /\ ino.pins = Duty(255, 0, 0) <=> ino.detectionLevel = 2

\* loop() of led_control.ino has ended in the dark phase of the blink
C23_Witness ==
    /\ ino.sketch = "led_control" /\ ~inLoop /\ ino.act = "LoopTail"
    /\ ino.detectionLevel = 1 /\ ino.pixels = AllOff /\ Happened(ino, "toggle")

(* ----------------------------------------------------------------------- *)
\* C24: in led_control.ino, outside processCommand, isBlinking is true iff
\* detectionLevel = 1, and detectionLevel is 0 or 1; so the blink block
\* never toggles at level 0: an execution of loop() that toggled ends at
\* level 1, unless its own timeout block, which runs after the blink
\* block and only at a level other than 0, has reset the level.
C24_BlinkFlagTracksLevel ==
    /\ ino.detectionLevel \in {0, 1}
    /\ ino.isBlinking <=> ino.detectionLevel = 1
    /\ Happened(ino, "toggle") =>
           (ino.detectionLevel = 1 \/ Happened(ino, "timeout"))
    /\ (ino.detectionLevel = 0 /\ ~Happened(ino, "timeout")) =>
           ~Happened(ino, "toggle")

\* a toggle at level 1, and the flag set
C24_Witness ==
    /\ ino.act = "LoopTail" /\ Happened(ino, "toggle") /\ ~Happened(ino, "timeout")
    /\ ino.detectionLevel = 1 /\ ino.isBlinking /\ ino.pixels = RedFrame

(* ----------------------------------------------------------------------- *)
\* C25: a call of ArduinoController.send_command on a controller that is
\* not connected, or one whose serial write raises, returns False and
\* leaves last_command (and the port) as it was; after a write that raised
\* the command still differs from last_command or is 'p', so the same call
\* reaches the write again; last_command changes only in a call that has
\* written a level command and returns True, and it becomes that command.
WriteRaises(c) ==
    send_command(c, FALSE) /\ host.connected /\ (c = "p" \/ c # host.last_command)
Untouched == host'.last_command = host.last_command /\ host'.wire = host.wire /\ rx' = rx

C25_FailuresKeepLastCommand ==
    /\ []((host.connected /\ ~host.ret) =>
              (host.command = "p" \/ host.command # host.last_command))
    /\ [][/\ \A c \in HostCommands : WriteRaises(c) => (~host'.ret /\ Untouched)
          /\ (HostCall /\ ~host.connected) => (~host'.ret /\ Untouched)
          /\ (HostCall /\ ~host'.ret) => Untouched
          /\ host'.last_command # host.last_command =>
                 /\ host'.ret /\ Wrote
                 /\ IsHostLevel(host'.command)
                 /\ host'.last_command = host'.command
       ]_vars

\* '1' was written, then the write of '2' raised: the call returned False
\* and last_command is still '1'
C25_Witness ==
    /\ host.connected /\ host.wire = <<"1">>
    /\ host.command = "2" /\ ~host.ret /\ host.last_command = "1"

(* ----------------------------------------------------------------------- *)
\* C26: for all channel values old, new in 0..255 and every step in 0..20,
\* old + (new - old) * step / 20 in 16-bit signed arithmetic with
\* truncating division does not overflow (the product and the sum are the
\* mathematical ones), lies between min(old, new) and max(old, new), is
\* old at step 0 and new at step 20, and so is stored in the uint8_t
\* without wrapping.
StepDone == ino.step - 1
Product == (ino.new - ino.old) * StepDone
Interpolated ==
    ino.old + (IF Product >= 0 THEN Product \div 20 ELSE -((-Product) \div 20))

C26_FadeInRange ==
    ino.act = "fadeStep" =>
        /\ StepDone \in 0 .. 20
        /\ Product \in -32768 .. 32767
        /\ Interpolated \in -32768 .. 32767
        /\ Interpolated >= (IF ino.old < ino.new THEN ino.old ELSE ino.new)
        /\ Interpolated <= (IF ino.old < ino.new THEN ino.new ELSE ino.old)
        /\ Interpolated \in 0 .. 255
        /\ ino.r = Interpolated
        /\ StepDone = 0 => ino.r = ino.old
        /\ StepDone = 20 => ino.r = ino.new

\* the largest downward fade, half-way: 255 - 2550 / 20 = 128
C26_Witness ==
    /\ ino.act = "fadeStep" /\ ino.old = 255 /\ ino.new = 0
    /\ ino.step = 11 /\ ino.r = 128

====
